---- MODULE Spec2Model ----
(***************************************************************************)
(* Stack Over MCP: the fallback search cascade of StackOverflowAPI         *)
(* (src/stack_api.py) and the three tools that call it (src/main.py).      *)
(*                                                                         *)
(* Text is a sequence of one-character strings, so that tokenising,        *)
(* lowercasing, substring matching and joining are computed as the code    *)
(* computes them.  An Optional value is a sequence of length 0 (None) or   *)
(* 1 (the value).  One behaviour is one tool invocation; every upstream    *)
(* call answers with a transport failure or with a list of items.          *)
(***************************************************************************)
EXTENDS Integers, Sequences, FiniteSets, TLC

(* ----------------------------- bounds ---------------------------------- *)
MaxQueryLen == 2
MaxItems == 2

(* ------------------------- characters and text ------------------------- *)
UpperToLower ==
  [c \in {"A","B","C","D","E","F","G","H","I","J","K","L","M","N","O","P","Q",
          "R","S","T","U","V","W","X","Y","Z"} |->
     CASE c = "A" -> "a" [] c = "B" -> "b" [] c = "C" -> "c" [] c = "D" -> "d"
       [] c = "E" -> "e" [] c = "F" -> "f" [] c = "G" -> "g" [] c = "H" -> "h"
       [] c = "I" -> "i" [] c = "J" -> "j" [] c = "K" -> "k" [] c = "L" -> "l"
       [] c = "M" -> "m" [] c = "N" -> "n" [] c = "O" -> "o" [] c = "P" -> "p"
       [] c = "Q" -> "q" [] c = "R" -> "r" [] c = "S" -> "s" [] c = "T" -> "t"
       [] c = "U" -> "u" [] c = "V" -> "v" [] c = "W" -> "w" [] c = "X" -> "x"
       [] c = "Y" -> "y" [] c = "Z" -> "z"]

LowerLetters ==
  {"a","b","c","d","e","f","g","h","i","j","k","l","m","n","o","p","q",
   "r","s","t","u","v","w","x","y","z"}

Digits == {"0","1","2","3","4","5","6","7","8","9"}

\* the characters the regular expression class \w matches
WordChars == LowerLetters \cup DOMAIN UpperToLower \cup Digits \cup {"_"}

\* the characters str.split() treats as separators
Whitespace == {" ", "\t", "\n", "\r"}

Range(s) == {s[i] : i \in 1..Len(s)}

\* str.lower()
lower(s) == [i \in 1..Len(s) |-> IF s[i] \in DOMAIN UpperToLower THEN UpperToLower[s[i]] ELSE s[i]]

RECURSIVE RunsFrom(_, _, _, _)
RunsFrom(s, keep, i, cur) ==
  IF i > Len(s)
    THEN (IF cur = <<>> THEN <<>> ELSE <<cur>>)
    ELSE IF s[i] \in keep
      THEN RunsFrom(s, keep, i + 1, Append(cur, s[i]))
      ELSE (IF cur = <<>> THEN <<>> ELSE <<cur>>) \o RunsFrom(s, keep, i + 1, <<>>)

\* re.findall(r'\b\w+\b', s): the maximal runs of word characters, in order
findall_words(s) == RunsFrom(s, WordChars, 1, <<>>)

\* str.split(): the maximal runs of non-whitespace characters, in order
split(s) == RunsFrom(s, Range(s) \ Whitespace, 1, <<>>)

RECURSIVE join(_, _)
\* sep.join(parts)
join(sep, parts) ==
  IF parts = <<>> THEN <<>>
  ELSE IF Len(parts) = 1 THEN parts[1]
  ELSE parts[1] \o sep \o join(sep, Tail(parts))

\* the Python test `term in text` on strings
contains(text, term) ==
  \E i \in 1..(Len(text) - Len(term) + 1) : SubSeq(text, i, i + Len(term) - 1) = term

\* Python truthiness of a string or list, and of an Optional list
truthy(s) == s # <<>>
None == <<>>
Some(x) == <<x>>
truthyOpt(o) == o # None /\ o[1] # <<>>

(* --------------------------- Text Analyzer ----------------------------- *)
stop_words ==
  {
    <<"h","o","w">>, <<"t","o">>, <<"t","h","e">>, <<"a">>,
    <<"a","n">>, <<"a","n","d">>, <<"o","r">>, <<"b","u","t">>,
    <<"i","n">>, <<"o","n">>, <<"a","t">>, <<"f","o","r">>,
    <<"w","i","t","h">>, <<"b","y">>, <<"f","r","o","m">>, <<"u","p">>,
    <<"a","b","o","u","t">>, <<"i","n","t","o">>, <<"t","h","r","o","u","g","h">>, <<"d","u","r","i","n","g">>,
    <<"b","e","f","o","r","e">>, <<"a","f","t","e","r">>, <<"a","b","o","v","e">>, <<"b","e","l","o","w">>,
    <<"b","e","t","w","e","e","n">>, <<"a","m","o","n","g">>, <<"c","a","n">>, <<"c","o","u","l","d">>,
    <<"s","h","o","u","l","d">>, <<"w","o","u","l","d">>, <<"w","i","l","l">>, <<"s","h","a","l","l">>,
    <<"m","a","y">>, <<"m","i","g","h","t">>, <<"m","u","s","t">>, <<"d","o">>,
    <<"d","o","e","s">>, <<"d","i","d">>, <<"h","a","v","e">>, <<"h","a","s">>,
    <<"h","a","d">>, <<"b","e">>, <<"a","m">>, <<"i","s">>,
    <<"a","r","e">>, <<"w","a","s">>, <<"w","e","r","e">>, <<"b","e","e","n">>,
    <<"b","e","i","n","g">>, <<"g","e","t">>, <<"g","o","t">>, <<"m","a","k","e">>,
    <<"m","a","d","e">>, <<"t","a","k","e">>, <<"t","o","o","k">>, <<"g","i","v","e">>,
    <<"g","a","v","e">>, <<"c","o","m","e">>, <<"c","a","m","e">>, <<"g","o">>,
    <<"w","e","n","t">>, <<"s","e","e">>, <<"s","a","w">>, <<"k","n","o","w">>,
    <<"k","n","e","w">>, <<"t","h","i","n","k">>, <<"t","h","o","u","g","h","t">>, <<"s","a","y">>,
    <<"s","a","i","d">>, <<"t","e","l","l">>, <<"t","o","l","d">>, <<"b","e","c","o","m","e">>,
    <<"b","e","c","a","m","e">>, <<"l","e","a","v","e">>, <<"l","e","f","t">>, <<"f","i","n","d">>,
    <<"f","o","u","n","d">>, <<"s","e","e","m">>, <<"s","e","e","m","e","d">>, <<"t","u","r","n">>,
    <<"t","u","r","n","e","d">>, <<"p","u","t">>, <<"s","e","t">>, <<"m","o","v","e">>,
    <<"m","o","v","e","d">>, <<"r","i","g","h","t">>, <<"w","a","y">>, <<"e","v","e","n">>,
    <<"b","a","c","k">>, <<"g","o","o","d">>, <<"n","e","w">>, <<"f","i","r","s","t">>,
    <<"l","a","s","t">>, <<"l","o","n","g">>, <<"g","r","e","a","t">>, <<"l","i","t","t","l","e">>,
    <<"o","w","n">>, <<"o","t","h","e","r">>, <<"o","l","d">>, <<"b","i","g">>,
    <<"h","i","g","h">>, <<"d","i","f","f","e","r","e","n","t">>, <<"s","m","a","l","l">>, <<"l","a","r","g","e">>,
    <<"n","e","x","t">>, <<"e","a","r","l","y">>, <<"y","o","u","n","g">>, <<"i","m","p","o","r","t","a","n","t">>,
    <<"f","e","w">>, <<"p","u","b","l","i","c">>, <<"b","a","d">>, <<"s","a","m","e">>,
    <<"a","b","l","e">>
  }

tech_terms ==
  <<
    <<"p","y","t","h","o","n">>, <<"j","a","v","a","s","c","r","i","p","t">>, <<"j","a","v","a">>, <<"c","#">>,
    <<"c","+","+">>, <<"p","h","p">>, <<"r","u","b","y">>, <<"g","o">>,
    <<"r","u","s","t">>, <<"s","w","i","f","t">>, <<"k","o","t","l","i","n">>, <<"r","e","a","c","t">>,
    <<"v","u","e">>, <<"a","n","g","u","l","a","r">>, <<"n","o","d","e">>, <<"e","x","p","r","e","s","s">>,
    <<"d","j","a","n","g","o">>, <<"f","l","a","s","k">>, <<"s","p","r","i","n","g">>, <<"l","a","r","a","v","e","l">>,
    <<"m","y","s","q","l">>, <<"p","o","s","t","g","r","e","s","q","l">>, <<"m","o","n","g","o","d","b">>, <<"r","e","d","i","s">>,
    <<"e","l","a","s","t","i","c","s","e","a","r","c","h">>, <<"d","o","c","k","e","r">>, <<"k","u","b","e","r","n","e","t","e","s">>, <<"a","w","s">>,
    <<"a","z","u","r","e">>, <<"g","c","p">>, <<"p","a","n","d","a","s">>, <<"n","u","m","p","y">>,
    <<"t","e","n","s","o","r","f","l","o","w">>, <<"p","y","t","o","r","c","h">>, <<"a","i","r","f","l","o","w">>, <<"s","p","a","r","k">>,
    <<"h","a","d","o","o","p">>, <<"k","a","f","k","a">>, <<"g","i","t">>, <<"g","i","t","h","u","b">>,
    <<"g","i","t","l","a","b">>, <<"j","e","n","k","i","n","s">>, <<"c","i","/","c","d">>
  >>

MaxKeywords == 5
MinKeywordLen == 2

\* the keywords without the limit of five
extract_keywords_all(query) ==
  SelectSeq(findall_words(lower(query)), LAMBDA word : word \notin stop_words /\ Len(word) > MinKeywordLen)

\* StackOverflowAPI._extract_keywords
extract_keywords(query) ==
  LET words == findall_words(lower(query))
      keywords == SelectSeq(words, LAMBDA word : word \notin stop_words /\ Len(word) > MinKeywordLen)
  IN  SubSeq(keywords, 1, IF Len(keywords) < MaxKeywords THEN Len(keywords) ELSE MaxKeywords)

dag == <<"d","a","g">>
airflow == <<"a","i","r","f","l","o","w">>
airflow_scheduler == <<"a","i","r","f","l","o","w","-","s","c","h","e","d","u","l","e","r">>

Reverse(s) == [i \in 1..Len(s) |-> s[Len(s) + 1 - i]]

\* tech_terms is a Python set of strings: the order in which the loop visits it
\* is fixed within one process and unspecified across processes
IterationOrders == {"forward", "reverse"}
IterationOrder(o) == IF o = "forward" THEN tech_terms ELSE Reverse(tech_terms)

\* the terms matched against the query as typed, not lowercased
extract_technology_terms_cased(query, order) ==
  LET found_terms == SelectSeq(IterationOrder(order), LAMBDA term : contains(query, term))
  IN  IF contains(query, dag) /\ contains(query, airflow)
        THEN Append(found_terms, airflow_scheduler)
        ELSE found_terms

\* StackOverflowAPI._extract_technology_terms, visiting the set in `order`
extract_technology_terms(query, order) ==
  LET query_lower == lower(query)
      found_terms == SelectSeq(IterationOrder(order), LAMBDA term : contains(query_lower, term))
  IN  IF contains(query_lower, dag) /\ contains(query_lower, airflow)
        THEN Append(found_terms, airflow_scheduler)
        ELSE found_terms

(* ------------------------------ inputs --------------------------------- *)
python == <<"p","y","t","h","o","n">>

\* characters of the bounded queries: an upper-case letter, a letter and a
\* separator
QueryAlphabet == {"G", "o", " "}

RECURSIVE SeqsUpTo(_, _)
SeqsUpTo(S, n) ==
  IF n = 0 THEN {<<>>}
  ELSE LET shorter == SeqsUpTo(S, n - 1)
       IN  shorter \cup {Append(s, x) : s \in {t \in shorter : Len(t) = n - 1}, x \in S}

\* queries with a character that is neither a word character nor a space,
\* with stop words only, and with technology terms
SampleQueries ==
  { <<"#">>,
    <<"o","o","o">>,
    <<"G","o","o">>,
    <<"G","o","#">>,
    <<"h","o","w"," ","t","o">>,
    <<"A","i","r","f","l","o","w"," ","D","A","G">>,
    <<"H","o","w"," ","t","o"," ","u","s","e"," ","p","a","n","d","a","s"," ","w","i","t","h"," ","p","y","t","h","o","n">> }

Queries == SeqsUpTo(QueryAlphabet, MaxQueryLen) \cup SampleQueries

TagLists == {None, Some(<<>>), Some(<<python>>)}

DefaultLimit == 10
Limits == {0, DefaultLimit, 101}
Sorts == {"relevance"}
TagSorts == {"votes", "relevance"}

\* upstream questions: one voted down, one voted up
Items == {[question_id |-> 1, score |-> -2], [question_id |-> 2, score |-> 5]}
ItemLists == SeqsUpTo(Items, MaxItems)

\* what one upstream call can do: raise requests.RequestException (ok = FALSE)
\* or return JSON with an item list
Responses == {[ok |-> FALSE, items |-> <<>>]} \cup {[ok |-> TRUE, items |-> l] : l \in ItemLists}

MinScores == {-1, 0, 3}
QuestionIds == {7}

Tools == {"search_stackoverflow", "get_question_details", "search_by_tags"}

VARIABLES tool, args, termOrder, other, pc, requests, responses, strategies, idx, results, raised, ret, fault

vars == <<tool, args, termOrder, other, pc, requests, responses, strategies, idx, results, raised, ret, fault>>

(* ---------------------------- requests --------------------------------- *)
MinPageSize == 1
MaxPageSize == 100

Max(a, b) == IF a > b THEN a ELSE b
Min(a, b) == IF a < b THEN a ELSE b

\* the limit passed through as it is
pagesizeUnclamped(limit) == limit

\* min(max(limit, 1), 100)
pagesize(limit) == Min(Max(limit, MinPageSize), MaxPageSize)

\* the request _search_advanced sends
AdvancedRequest(query, limit, sort, tags, accepted_only) ==
  [strategy |-> 0, endpoint |-> "/search/advanced",
   params |-> [order |-> "desc", sort |-> sort, q |-> Some(query), site |-> "stackoverflow",
               pagesize |-> pagesize(limit), filter |-> "withbody",
               tagged |-> IF truthyOpt(tags) THEN Some(join(<<";">>, tags[1])) ELSE None,
               accepted |-> IF accepted_only THEN Some("True") ELSE None]]

\* the request _search_by_tags_only sends
TagsOnlyRequest(tags, limit, sort, accepted_only) ==
  [strategy |-> 0, endpoint |-> "/questions",
   params |-> [order |-> "desc", sort |-> sort, q |-> None, site |-> "stackoverflow",
               pagesize |-> pagesize(limit), filter |-> "withbody",
               tagged |-> Some(join(<<";">>, tags)),
               accepted |-> IF accepted_only THEN Some("True") ELSE None]]

\* an endpoint selection that looks at the tags only
PrimaryEndpointByTags(query, tags) == IF truthyOpt(tags) THEN "tags_only" ELSE "advanced"

\* the endpoint selection of search_questions
PrimaryEndpoint(query, tags) ==
  IF truthy(query) /\ truthyOpt(tags) THEN "advanced"
  ELSE IF truthyOpt(tags) /\ ~truthy(query) THEN "tags_only"
  ELSE IF truthy(query) /\ ~truthyOpt(tags) THEN "advanced"
  ELSE "tags_only"

PrimaryRequest(query, limit, sort, tags, accepted_only) ==
  IF PrimaryEndpoint(query, tags) = "advanced"
    THEN AdvancedRequest(query, limit, sort, tags, accepted_only)
    ELSE TagsOnlyRequest(IF truthyOpt(tags) THEN tags[1] ELSE <<python>>, limit, sort, accepted_only)

(* ----------------------- Fallback Strategy Planner --------------------- *)
\* original_query.split()[0] is reached with no keyword and no token
PlanRaises(original_query) ==
  extract_keywords(original_query) = <<>> /\ split(original_query) = <<>>

\* the list literal fallback_strategies of _try_fallback_searches
fallback_strategies(original_query, original_tags, order) ==
  LET keywords == extract_keywords(original_query)
      terms == extract_technology_terms(original_query, order)
  IN  << [query |-> join(<<" ">>, keywords), tags |-> original_tags, accepted_only |-> FALSE],
         [query |-> join(<<" ">>, keywords),
          tags |-> IF truthy(terms) THEN Some(terms) ELSE original_tags,
          accepted_only |-> FALSE],
         [query |-> <<>>, tags |-> Some(terms), accepted_only |-> FALSE],
         [query |-> IF truthy(keywords) THEN keywords[1] ELSE split(original_query)[1],
          tags |-> None, accepted_only |-> FALSE] >>

NumStrategies == 4

\* a loop without the check for an empty strategy
SkippedNever(strategy) == FALSE

\* `if not strategy['query'] and not strategy['tags']: continue`
Skipped(strategy) == ~truthy(strategy.query) /\ ~truthyOpt(strategy.tags)

\* the request the loop body sends for strategy k
FallbackRequest(k, strategy, limit, sort) ==
  [strategy |-> k,
   endpoint |-> IF truthy(strategy.query) /\ truthyOpt(strategy.tags) THEN "/search/advanced"
                ELSE IF truthyOpt(strategy.tags) /\ ~truthy(strategy.query) THEN "/questions"
                ELSE "/search/advanced",
   params |-> [order |-> "desc", sort |-> sort, q |-> Some(strategy.query), site |-> "stackoverflow",
               pagesize |-> pagesize(limit), filter |-> "withbody",
               tagged |-> IF truthyOpt(strategy.tags) THEN Some(join(<<";">>, strategy.tags[1])) ELSE None,
               accepted |-> IF strategy.accepted_only THEN Some("True") ELSE None]]

(* --------------------------- exceptions -------------------------------- *)
\* `except requests.RequestException`
IsRequestException(exc) == exc = "RequestException"

\* a tool that catches transport failures only
IsExceptionNarrow(exc) == exc = "RequestException"

\* `except Exception` of the three tools
IsException(exc) == exc \in {"RequestException", "IndexError"}

\* a transport failure reported as an empty result
ErrorResultSilent == [items |-> <<>>, error |-> None, fallback_used |-> None]

\* the dictionary both primary searches return on a transport failure
ErrorResult == [items |-> <<>>, error |-> Some("API request failed"), fallback_used |-> None]

\* response.json() of a successful call
JsonResult(resp) == [items |-> resp.items, error |-> None, fallback_used |-> None]

(* --------------------------- Result Formatter -------------------------- *)
\* the projection format_search_results builds for one upstream item
formatted_item(item) == [question_id |-> item.question_id, score |-> item.score]

\* a formatter that loses the first upstream item
format_search_results_tail(res) ==
  IF res.error # None
    THEN << [error |-> res.error[1]] >>
    ELSE [i \in 1..(Len(res.items) - 1) |-> formatted_item(res.items[i + 1])]

\* StackOverflowAPI.format_search_results
format_search_results(res) ==
  IF res.error # None
    THEN << [error |-> res.error[1]] >>
    ELSE [i \in 1..Len(res.items) |-> formatted_item(res.items[i])]

\* result.get('score', 0)
get_score(result) == IF "score" \in DOMAIN result THEN result.score ELSE 0

(* ------------------------------- answers ------------------------------- *)
MaxAnswers == 2

AnswerItems ==
  {[answer_id |-> 1, score |-> 0, is_accepted |-> TRUE],
   [answer_id |-> 2, score |-> 5, is_accepted |-> TRUE],
   [answer_id |-> 3, score |-> 5, is_accepted |-> FALSE]}

AnswerResponses ==
  {[ok |-> FALSE, items |-> <<>>]} \cup {[ok |-> TRUE, items |-> l] : l \in SeqsUpTo(AnswerItems, MaxAnswers)}

RECURSIVE accepted_after(_, _, _)
\* the value of accepted_answer after the loop has visited answers[i..]
accepted_after(answers, i, acc) ==
  IF i > Len(answers) THEN acc
  ELSE accepted_after(answers, i + 1, IF answers[i].is_accepted THEN Some(answers[i]) ELSE acc)

RECURSIVE top_after(_, _, _)
\* the value of top_answer after the loop has visited answers[i..]
top_after(answers, i, top) ==
  IF i > Len(answers) THEN top
  ELSE top_after(answers, i + 1,
                 IF top = None \/ answers[i].score > top[1].score THEN Some(answers[i]) ELSE top)

AnswersRequest(question_id) ==
  [strategy |-> 0, endpoint |-> "/questions/{question_id}/answers",
   params |-> [order |-> "desc", sort |-> "votes", site |-> "stackoverflow", filter |-> "withbody",
               question_id |-> question_id]]

(* -------------------------------- state -------------------------------- *)
NoArgs ==
  [query |-> <<>>, limit |-> DefaultLimit, sort |-> "relevance", tags |-> None,
   accepted_only |-> FALSE, min_score |-> 0, question_id |-> 0, include_answers |-> TRUE]

ArgsOf(t) ==
  IF t = "search_stackoverflow"
    THEN {[NoArgs EXCEPT !.query = q, !.limit = l, !.sort = s, !.tags = tg, !.accepted_only = a] :
            q \in Queries, l \in Limits, s \in Sorts, tg \in TagLists, a \in BOOLEAN}
  ELSE IF t = "search_by_tags"
    THEN {[NoArgs EXCEPT !.limit = l, !.sort = s, !.tags = tg, !.min_score = m] :
            l \in Limits, s \in TagSorts, tg \in TagLists \ {None}, m \in MinScores}
  ELSE {[NoArgs EXCEPT !.question_id = id, !.include_answers = b] : id \in QuestionIds, b \in BOOLEAN}

\* the arguments the tool passes to stack_api.search_questions
ApiArgs ==
  IF tool = "search_by_tags"
    THEN [query |-> <<>>, limit |-> args.limit, sort |-> args.sort, tags |-> args.tags, accepted_only |-> FALSE]
    ELSE [query |-> args.query, limit |-> args.limit, sort |-> args.sort, tags |-> args.tags,
          accepted_only |-> args.accepted_only]

Init ==
  /\ tool \in Tools
  /\ args \in ArgsOf(tool)
  /\ termOrder \in IterationOrders
  /\ other = None
  /\ pc = "call"
  /\ requests = <<>>
  /\ responses = <<>>
  /\ strategies = None
  /\ idx = 0
  /\ results = None
  /\ raised = None
  /\ ret = None
  /\ fault = None

(* --------------------------- Search Dispatcher ------------------------- *)
\* StackOverflowAPI.search_questions, up to the primary request
search_questions ==
  /\ pc = "call"
  /\ tool \in {"search_stackoverflow", "search_by_tags"}
  /\ requests' = Append(requests, PrimaryRequest(ApiArgs.query, ApiArgs.limit, ApiArgs.sort,
                                                 ApiArgs.tags, ApiArgs.accepted_only))
  /\ pc' = IF PrimaryEndpoint(ApiArgs.query, ApiArgs.tags) = "advanced"
             THEN "primary_advanced" ELSE "primary_tags"
  /\ UNCHANGED <<responses, tool, args, termOrder, other, strategies, idx, results, raised, ret, fault>>

\* a check that never sees the items, as `result.get('item')` would
has_items_never(result) == FALSE

\* a check that asks for more than one item
has_items_several(result) == Len(result.items) > 1

\* `if result.get('items')` / `if not result.get('items')`
has_items(result) == truthy(result.items)

\* an exception raised inside the try block of _search_advanced
AdvancedRaise(exc) ==
  IF IsRequestException(exc)
    THEN results' = Some(ErrorResult) /\ raised' = raised
    ELSE results' = results /\ raised' = Some(exc)

\* StackOverflowAPI._search_advanced, from the primary response on
search_advanced ==
  /\ pc = "primary_advanced"
  /\ \E resp \in Responses :
       /\ responses' = Append(responses, resp)
       /\ IF ~resp.ok
            THEN /\ AdvancedRaise("RequestException")
                 /\ pc' = "returned"
                 /\ UNCHANGED <<strategies, idx>>
          ELSE IF has_items(JsonResult(resp))
            THEN /\ results' = Some(JsonResult(resp))
                 /\ pc' = "returned"
                 /\ UNCHANGED <<strategies, idx, raised>>
          ELSE IF PlanRaises(ApiArgs.query)
            THEN /\ AdvancedRaise("IndexError")
                 /\ pc' = "returned"
                 /\ UNCHANGED <<strategies, idx>>
          ELSE /\ strategies' = Some(fallback_strategies(ApiArgs.query, ApiArgs.tags, termOrder))
               /\ idx' = 1
               /\ pc' = "fallback"
               /\ UNCHANGED <<results, raised>>
  /\ UNCHANGED <<tool, args, termOrder, other, requests, ret, fault>>

\* StackOverflowAPI._search_by_tags_only, from the primary response on
search_by_tags_only ==
  /\ pc = "primary_tags"
  /\ \E resp \in Responses :
       /\ responses' = Append(responses, resp)
       /\ results' = Some(IF resp.ok THEN JsonResult(resp) ELSE ErrorResult)
  /\ pc' = "returned"
  /\ UNCHANGED <<tool, args, termOrder, other, requests, strategies, idx, raised, ret, fault>>

\* the loop of _try_fallback_searches: `continue` on an empty strategy
try_fallback_skip ==
  /\ pc = "fallback"
  /\ idx <= NumStrategies
  /\ Skipped(strategies[1][idx])
  /\ idx' = idx + 1
  /\ UNCHANGED <<responses, tool, args, termOrder, other, pc, requests, strategies, results, raised, ret, fault>>

\* the loop of _try_fallback_searches: the request of strategy idx
try_fallback_request ==
  /\ pc = "fallback"
  /\ idx <= NumStrategies
  /\ ~Skipped(strategies[1][idx])
  /\ requests' = Append(requests, FallbackRequest(idx, strategies[1][idx], ApiArgs.limit, ApiArgs.sort))
  /\ pc' = "fallback_wait"
  /\ UNCHANGED <<responses, tool, args, termOrder, other, strategies, idx, results, raised, ret, fault>>

\* a transport failure that ends the loop instead of continuing it
AfterFailureAbort(i) == NumStrategies + 1

\* `except requests.RequestException: continue`
AfterFailure(i) == i + 1

\* a marker that records the rewritten query as the original one
FallbackUsedRewritten(original_query, strategy) ==
  [original_query |-> strategy.query, fallback_query |-> strategy.query, fallback_tags |-> strategy.tags]

\* result['fallback_used'] of a strategy that worked
FallbackUsed(original_query, strategy) ==
  [original_query |-> original_query, fallback_query |-> strategy.query, fallback_tags |-> strategy.tags]

\* the loop of _try_fallback_searches: the response of strategy idx
try_fallback_response ==
  /\ pc = "fallback_wait"
  /\ \E resp \in Responses :
       /\ responses' = Append(responses, resp)
       /\ IF ~resp.ok
            THEN /\ idx' = AfterFailure(idx)
                 /\ pc' = "fallback"
                 /\ UNCHANGED results
          ELSE IF has_items(JsonResult(resp))
            THEN /\ results' = Some([JsonResult(resp) EXCEPT
                                       !.fallback_used = Some(FallbackUsed(ApiArgs.query, strategies[1][idx]))])
                 /\ pc' = "returned"
                 /\ UNCHANGED idx
          ELSE /\ idx' = idx + 1
               /\ pc' = "fallback"
               /\ UNCHANGED results
  /\ UNCHANGED <<tool, args, termOrder, other, requests, strategies, raised, ret, fault>>

\* `return {'items': []}` after the loop of _try_fallback_searches
try_fallback_exhausted ==
  /\ pc = "fallback"
  /\ idx > NumStrategies
  /\ results' = Some([items |-> <<>>, error |-> None, fallback_used |-> None])
  /\ pc' = "returned"
  /\ UNCHANGED <<responses, tool, args, termOrder, other, requests, strategies, idx, raised, ret, fault>>

(* -------------------------------- tools -------------------------------- *)
\* the record of the `except Exception` clause of a search tool
SearchFailed(exc, key, value) ==
  IF key = "query"
    THEN [error |-> <<"Search failed", exc>>, query |-> value]
    ELSE [error |-> <<"Tag search failed", exc>>, tags |-> value]

\* leaving a tool with exception exc pending: caught by `except Exception` or not
ToolExcept(exc, record) ==
  IF IsException(exc)
    THEN ret' = Some(record) /\ fault' = fault
    ELSE ret' = ret /\ fault' = Some(exc)

NoResultsForQuery(query) ==
  [message |-> <<"No results found for query", query>>,
   suggestion |-> "Try using different keywords, removing tag filters, or using broader search terms"]

FallbackInfo(info) ==
  [info |-> "Used fallback search strategy", original_query |-> info.original_query,
   fallback_query |-> info.fallback_query, fallback_tags |-> info.fallback_tags,
   note |-> "Results below are from a modified search to find relevant content"]

\* main.search_stackoverflow, after stack_api.search_questions has returned or raised
search_stackoverflow ==
  /\ pc = "returned"
  /\ tool = "search_stackoverflow"
  /\ IF raised # None
       THEN ToolExcept(raised[1], << SearchFailed(raised[1], "query", args.query) >>)
       ELSE LET formatted_results == format_search_results(results[1])
            IN  /\ ret' = Some(IF ~truthy(formatted_results)
                                 THEN << NoResultsForQuery(args.query) >>
                               ELSE IF results[1].fallback_used # None
                                 THEN << FallbackInfo(results[1].fallback_used[1]) >> \o formatted_results
                               ELSE formatted_results)
                /\ UNCHANGED fault
  /\ pc' = "done"
  /\ UNCHANGED <<responses, tool, args, termOrder, other, requests, strategies, idx, results, raised>>

NoResultsForTags(tags, min_score) ==
  [message |-> <<"No results found for tags", join(<<",", " ">>, tags)>>,
   suggestion |-> <<"Try different tags or lower the min_score", min_score>>]

\* main.search_by_tags, after stack_api.search_questions has returned or raised
search_by_tags ==
  /\ pc = "returned"
  /\ tool = "search_by_tags"
  /\ IF raised # None
       THEN ToolExcept(raised[1], << SearchFailed(raised[1], "tags", args.tags[1]) >>)
       ELSE LET formatted_results == format_search_results(results[1])
                filtered == IF args.min_score > 0
                              THEN SelectSeq(formatted_results,
                                             LAMBDA result : get_score(result) >= args.min_score)
                              ELSE formatted_results
            IN  /\ ret' = Some(IF ~truthy(filtered)
                                 THEN << NoResultsForTags(args.tags[1], args.min_score) >>
                                 ELSE filtered)
                /\ UNCHANGED fault
  /\ pc' = "done"
  /\ UNCHANGED <<responses, tool, args, termOrder, other, requests, strategies, idx, results, raised>>

QuestionLink(question_id) == <<"https://stackoverflow.com/questions/", question_id>>

\* main.get_question_details, up to the upstream request
get_question_details ==
  /\ pc = "call"
  /\ tool = "get_question_details"
  /\ IF ~args.include_answers
       THEN /\ ret' = Some([message |-> <<"Question details for ID", args.question_id>>,
                            link |-> QuestionLink(args.question_id),
                            note |-> "Use include_answers=True to get full details with answers"])
            /\ pc' = "done"
            /\ UNCHANGED requests
       ELSE /\ requests' = Append(requests, AnswersRequest(args.question_id))
            /\ pc' = "answers"
            /\ UNCHANGED ret
  /\ UNCHANGED <<responses, tool, args, termOrder, other, strategies, idx, results, raised, fault>>

\* the projection get_question_details builds for one upstream answer
formatted_answer(answer) ==
  [answer_id |-> answer.answer_id, score |-> answer.score, is_accepted |-> answer.is_accepted]

\* get_question_with_answers from the response on, and the rest of get_question_details
get_question_with_answers ==
  /\ pc = "answers"
  /\ \E resp \in AnswerResponses :
       /\ responses' = Append(responses, resp)
       /\ LET answers_data == IF resp.ok THEN JsonResult(resp) ELSE ErrorResult
              formatted_answers == [i \in 1..Len(answers_data.items) |-> formatted_answer(answers_data.items[i])]
              accepted_answer == accepted_after(formatted_answers, 1, None)
              top_answer == top_after(formatted_answers, 1, None)
          IN  /\ results' = Some(answers_data)
              /\ ret' = Some(IF answers_data.error # None
                               THEN [error |-> answers_data.error[1], question_id |-> args.question_id,
                                     link |-> QuestionLink(args.question_id)]
                               ELSE [question_id |-> args.question_id,
                                     link |-> QuestionLink(args.question_id),
                                     answer_count |-> Len(formatted_answers),
                                     answers |-> formatted_answers,
                                     accepted_answer |-> accepted_answer,
                                     top_answer |-> IF top_answer # None /\ top_answer[1].score > 0
                                                      THEN top_answer ELSE None])
  /\ pc' = "done"
  /\ UNCHANGED <<tool, args, termOrder, other, requests, strategies, idx, raised, fault>>

Next ==
  \/ search_questions
  \/ search_advanced
  \/ search_by_tags_only
  \/ try_fallback_skip
  \/ try_fallback_request
  \/ try_fallback_response
  \/ try_fallback_exhausted
  \/ search_stackoverflow
  \/ search_by_tags
  \/ get_question_details
  \/ get_question_with_answers

Spec == Init /\ [][Next]_vars

(* ---------------------- the Text Analyzer on its own ------------------- *)
MaxWords == 6

\* a stop word, a short token, a keyword and a keyword that is a technology
\* term written with an upper-case letter
TextWords == { <<"t","h","e">>, <<"j","s">>, <<"d","a","g">>, <<"A","i","r","f","l","o","w">> }

RECURSIVE Sentences(_)
\* the queries of at most n words of TextWords, separated by one space
Sentences(n) ==
  IF n = 0 THEN {<<>>}
  ELSE LET shorter == Sentences(n - 1)
       IN  shorter \cup TextWords \cup {s \o <<" ">> \o w : s \in shorter \ {<<>>}, w \in TextWords}

TextSamples ==
  { <<"C","I","/","C","D"," ","w","i","t","h"," ","g","i","t","h","u","b">>,
    <<"D","j","a","n","g","o">>,
    <<"c","+","+"," ","o","r"," ","C","#">> }

TextQueries == Sentences(MaxWords) \cup SampleQueries \cup TextSamples

InitText ==
  /\ tool = "text_analyzer"
  /\ args \in {[NoArgs EXCEPT !.query = q] : q \in TextQueries}
  /\ termOrder \in IterationOrders
  /\ other = None
  /\ pc = "call"
  /\ requests = <<>>
  /\ responses = <<>>
  /\ strategies = None
  /\ idx = 0
  /\ results = None
  /\ raised = None
  /\ ret = None
  /\ fault = None

\* the call self._extract_keywords(original_query)
call_extract_keywords ==
  /\ pc = "call"
  /\ tool = "text_analyzer"
  /\ results' = Some([keywords |-> extract_keywords(args.query)])
  /\ pc' = "keywords"
  /\ UNCHANGED <<tool, args, termOrder, other, requests, responses, strategies, idx, raised, ret, fault>>

\* the call self._extract_technology_terms(original_query)
call_extract_technology_terms ==
  /\ pc = "keywords"
  /\ tool = "text_analyzer"
  /\ results' = Some([keywords |-> results[1].keywords,
                       terms |-> extract_technology_terms(args.query, termOrder)])
  /\ pc' = "done"
  /\ UNCHANGED <<tool, args, termOrder, other, requests, responses, strategies, idx, raised, ret, fault>>

NextText ==
  \/ call_extract_keywords
  \/ call_extract_technology_terms

SpecText == InitText /\ [][NextText]_vars

(* ----------------------- two overlapping invocations ------------------- *)
\* the objects of one invocation: its arguments, locals and position
Frame ==
  [tool |-> tool, args |-> args, pc |-> pc, requests |-> requests, responses |-> responses,
   strategies |-> strategies, idx |-> idx, results |-> results, raised |-> raised, ret |-> ret,
   fault |-> fault]

InitialFrame(t, a) ==
  [tool |-> t, args |-> a, pc |-> "call", requests |-> <<>>, responses |-> <<>>,
   strategies |-> None, idx |-> 0, results |-> None, raised |-> None, ret |-> None, fault |-> None]

\* a client that keeps the result of the search in an attribute of its own
SharedOnClientResults == {"results"}

\* the objects of an invocation that live on the process-wide client instead
\* of in the invocation: __init__ creates the session and nothing else
SharedOnClient == {}

\* what the resumed invocation finds in an object: the shared one, or its own
Resume(field, current, saved) == IF field \in SharedOnClient THEN current ELSE saved

\* the invocation is between its first step and its return
InFlight(position) == position \notin {"call", "done"}

\* the second invocation of each overlapping pair; the first one is FirstCall
ConcurrentCalls ==
  { <<"search_stackoverflow", [NoArgs EXCEPT !.query = <<"o", "o", "o">>, !.tags = Some(<<python>>)]>>,
    <<"search_by_tags", [NoArgs EXCEPT !.sort = "votes", !.tags = Some(<<python>>), !.min_score = 3]>>,
    <<"get_question_details", [NoArgs EXCEPT !.question_id = 7]>> }

FirstCall == <<"search_stackoverflow", [NoArgs EXCEPT !.query = <<"G", "o">>]>>

\* two invocations in one process; `other` holds the suspended one, and
\* whether the two have been in flight at the same time. Neither query names
\* a technology, so one iteration order stands for all.
InitConc ==
  /\ termOrder = "forward"
  /\ tool = FirstCall[1]
  /\ args = FirstCall[2]
  /\ \E second \in ConcurrentCalls :
       other = Some([frame |-> InitialFrame(second[1], second[2]), overlapped |-> FALSE])
  /\ pc = "call"
  /\ requests = <<>>
  /\ responses = <<>>
  /\ strategies = None
  /\ idx = 0
  /\ results = None
  /\ raised = None
  /\ ret = None
  /\ fault = None

\* the scheduler suspends the running invocation and resumes the other one
switch ==
  /\ other # None
  /\ LET saved == other[1].frame
     IN  /\ other' = Some([frame |-> Frame,
                           overlapped |-> other[1].overlapped \/ (InFlight(pc) /\ InFlight(saved.pc))])
         /\ tool' = saved.tool
         /\ args' = saved.args
         /\ pc' = saved.pc
         /\ requests' = Resume("requests", requests, saved.requests)
         /\ responses' = Resume("responses", responses, saved.responses)
         /\ strategies' = Resume("strategies", strategies, saved.strategies)
         /\ idx' = Resume("idx", idx, saved.idx)
         /\ results' = Resume("results", results, saved.results)
         /\ raised' = Resume("raised", raised, saved.raised)
         /\ ret' = Resume("ret", ret, saved.ret)
         /\ fault' = Resume("fault", fault, saved.fault)
  /\ UNCHANGED termOrder

NextConc ==
  \/ Next
  \/ switch

SpecConc == InitConc /\ [][NextConc]_vars

TypeOK ==
  /\ tool \in Tools
  /\ pc \in {"call", "primary_advanced", "primary_tags", "fallback", "fallback_wait", "returned",
             "answers", "done"}
  /\ idx \in 0..(NumStrategies + 1)

(* ======================================================================= *)
(* Properties                                                              *)
(* ======================================================================= *)
IsSearchTool == tool \in {"search_stackoverflow", "search_by_tags"}

\* the strategies attempted so far, in the order of their requests
FallbackTrace == [i \in 1..(Len(requests) - 1) |-> requests[i + 1].strategy]

Attempted(k) == \E i \in 1..Len(requests) : requests[i].strategy = k

NonEmpty(resp) == resp.ok /\ resp.items # <<>>

\* the last request has been answered with a non-empty item list
LastSucceeded ==
  /\ Len(requests) >= 1
  /\ Len(responses) = Len(requests)
  /\ NonEmpty(responses[Len(responses)])

\* the strategies among 1..n that are not skipped, in order
EligibleUpTo(n) ==
  SelectSeq([k \in 1..n |-> k], LAMBDA k : ~Skipped(strategies[1][k]))

\* requests go out one at a time, in the order 1, 2, 3, 4, each strategy at most
\* once, none but an ineligible one passed over, and none after a non-empty response
CascadeOrder ==
  /\ Len(requests) - Len(responses) \in {0, 1}
  /\ \A i \in 2..Len(requests) : requests[i].strategy \in 1..NumStrategies
  /\ \A i, j \in 2..Len(requests) : i < j => requests[i].strategy < requests[j].strategy
  /\ \A i \in 2..Len(requests) : \A k \in 1..(requests[i].strategy - 1) :
       Attempted(k) \/ Skipped(strategies[1][k])
  /\ \A i \in 1..(Len(requests) - 1) : ~NonEmpty(responses[i])

\* C1 (as stated): the fallback requests are issued one at a time in the order
\* 1, 2, 3, 4, ineligible strategies skipped, each at most once, none after the
\* first non-empty response; and when only strategy 3 has a non-empty response
\* the trace of attempted strategies is exactly 1, 2, 3.
C1_Original ==
  IsSearchTool =>
    /\ CascadeOrder
    /\ (LastSucceeded /\ requests[Len(requests)].strategy = 3) => FallbackTrace = <<1, 2, 3>>

\* C1 (amended): the fallback requests are issued one at a time in the order
\* 1, 2, 3, 4, ineligible strategies skipped, each at most once, none after the
\* first non-empty response; and when only strategy 3 has a non-empty response
\* the trace is the eligible strategies among 1, 2, followed by 3 (exactly
\* 1, 2, 3 when strategies 1 and 2 are both eligible).
C1_FallbackOrder ==
  IsSearchTool =>
    /\ CascadeOrder
    /\ (LastSucceeded /\ requests[Len(requests)].strategy = 3) =>
         /\ FallbackTrace = EligibleUpTo(3)
         /\ (~Skipped(strategies[1][1]) /\ ~Skipped(strategies[1][2])) => FallbackTrace = <<1, 2, 3>>

C1_Witness ==
  /\ pc = "done"
  /\ LastSucceeded
  /\ FallbackTrace = <<1, 2, 3>>
  /\ results[1].fallback_used # None

PrimaryAnswered == IsSearchTool /\ Len(responses) >= 1
PrimaryFailed == PrimaryAnswered /\ ~responses[1].ok
PrimaryEmpty == PrimaryAnswered /\ responses[1].ok /\ responses[1].items = <<>>

\* search_questions has returned or raised
Returned == pc \in {"returned", "done"}

\* C2 (as stated): for every search request, whichever endpoint served the
\* primary attempt, a primary attempt that completes with an empty item list
\* is followed by the Planner and by the requests of its eligible strategies.
C2_FallbackAfterEmptyPrimary ==
  (PrimaryEmpty /\ Returned) =>
    /\ strategies # None
    /\ \A k \in 1..NumStrategies :
         (~Skipped(strategies[1][k]) /\ ~\E i \in 2..Len(responses) : requests[i].strategy < k /\ NonEmpty(responses[i]))
           => Attempted(k)

\* C3 (as stated): a transport failure of the primary call of
\* search_stackoverflow is returned as one error record that carries both an
\* error message and the original query.
C3_PrimaryFailureCarriesQuery ==
  (tool = "search_stackoverflow" /\ pc = "done" /\ PrimaryFailed) =>
    /\ ret # None
    /\ Len(ret[1]) = 1
    /\ DOMAIN ret[1][1] = {"error", "query"}
    /\ ret[1][1].query = args.query

\* the first eligible strategy after k, or 0
NextEligible(k) ==
  LET later == {j \in (k + 1)..NumStrategies : ~Skipped(strategies[1][j])}
  IN  IF later = {} THEN 0 ELSE CHOOSE j \in later : \A m \in later : j <= m

FallbackFailed(i) == i \in 2..Len(responses) /\ ~responses[i].ok

\* C4: a transport failure of a fallback request does not end the cascade: the
\* next eligible strategy is still requested, and the outcome carries no error;
\* it is the non-empty item list of a later strategy or the empty list.
C4_FallbackFailureSwallowed ==
  (IsSearchTool /\ Returned) =>
    \A i \in 2..Len(responses) : FallbackFailed(i) =>
      /\ NextEligible(requests[i].strategy) # 0 => Attempted(NextEligible(requests[i].strategy))
      /\ raised = None
      /\ results # None
      /\ results[1].error = None
      /\ \/ results[1].items = <<>> /\ results[1].fallback_used = None
         \/ /\ LastSucceeded
            /\ requests[Len(requests)].strategy > requests[i].strategy
            /\ results[1].items = responses[Len(responses)].items

C4_Witness ==
  /\ pc = "done"
  /\ tool = "search_stackoverflow"
  /\ FallbackFailed(2)
  /\ requests[2].strategy = 1
  /\ LastSucceeded
  /\ results[1].items # <<>>

\* C5: after a primary attempt that fails with a transport failure no fallback
\* request is issued, the Planner is not run, and search_questions returns an
\* explicit error outcome.
C5_PrimaryFailureIsError ==
  PrimaryFailed =>
    /\ Len(requests) = 1
    /\ strategies = None
    /\ Returned
    /\ raised = None
    /\ results # None
    /\ results[1].error # None
    /\ results[1].fallback_used = None

C5_Witness ==
  /\ PrimaryFailed
  /\ pc = "done"
  /\ tool = "search_stackoverflow"
  /\ requests[1].endpoint = "/search/advanced"
  /\ "error" \in DOMAIN ret[1][1]

NoFallbackSucceeded == \A i \in 2..Len(responses) : ~NonEmpty(responses[i])

\* C6 (as stated): for every non-empty query, whitespace-only ones included,
\* whose primary search is empty and whose fallback strategies all yield no
\* items, fail or are skipped, search_questions returns an empty item list
\* with no fallback marker and no error, and search_stackoverflow returns the
\* single diagnostic record {message, suggestion}.
C6_EmptyCascadeIsDiagnostic ==
  (tool = "search_stackoverflow" /\ pc = "done" /\ truthy(args.query) /\ PrimaryEmpty /\ NoFallbackSucceeded) =>
    /\ raised = None
    /\ results = Some([items |-> <<>>, error |-> None, fallback_used |-> None])
    /\ ret # None
    /\ Len(ret[1]) = 1
    /\ DOMAIN ret[1][1] = {"message", "suggestion"}

\* the value a tool returns is a record, or a non-empty sequence of records
Structured ==
  /\ ret # None
  /\ IF tool = "get_question_details"
       THEN DOMAIN ret[1] \in {{"message", "link", "note"}, {"error", "question_id", "link"},
                               {"question_id", "link", "answer_count", "answers", "accepted_answer",
                                "top_answer"}}
       ELSE /\ Len(ret[1]) >= 1
            /\ \A i \in 1..Len(ret[1]) : DOMAIN ret[1][i] \subseteq STRING

\* C7: no exception leaves a tool: each of the three tools goes on until it
\* returns, and what it returns is a record or a sequence of records,
\* whatever the upstream calls did.
C7_NoFaultCrossesBoundary ==
  /\ fault = None
  /\ pc = "done" => Structured
  /\ pc # "done" => ENABLED Next

C7_Witness ==
  /\ pc = "done"
  /\ raised = Some("IndexError")
  /\ ret # None
  /\ "error" \in DOMAIN ret[1][1]

\* no fallback request goes out with an empty query and no tag filter
NoEmptyDispatch ==
  \A i \in 2..Len(requests) : ~(requests[i].params.q = Some(<<>>) /\ requests[i].params.tagged = None)

\* C8 (as stated): a strategy whose query and tags are both empty is never
\* dispatched, and strategy 3 is the only one that can be skipped: strategies
\* 1, 2 and 4 are eligible for every query and tags that reach the cascade.
C8_Original ==
  IsSearchTool =>
    /\ NoEmptyDispatch
    /\ strategies # None =>
         /\ ~Skipped(strategies[1][1])
         /\ ~Skipped(strategies[1][2])
         /\ ~Skipped(strategies[1][4])

\* C8 (amended): a strategy whose query and tags are both empty is never
\* dispatched; strategy 3 is skipped exactly when no technology term is
\* recognized, strategy 1 exactly when no keyword is extracted and the original
\* tags are empty, strategy 2 exactly when in addition no technology term is
\* recognized, and strategy 4 is eligible in every plan.
C8_SkippedStrategies ==
  IsSearchTool =>
    /\ NoEmptyDispatch
    /\ strategies # None =>
         LET noKeywords == extract_keywords(ApiArgs.query) = <<>>
             noTerms == extract_technology_terms(ApiArgs.query, termOrder) = <<>>
             noTags == ApiArgs.tags = None \/ ApiArgs.tags = Some(<<>>)
         IN  /\ Skipped(strategies[1][1]) <=> (noKeywords /\ noTags)
             /\ Skipped(strategies[1][2]) <=> (noKeywords /\ noTerms /\ noTags)
             /\ Skipped(strategies[1][3]) <=> noTerms
             /\ ~Skipped(strategies[1][4])
             /\ \A k \in 1..NumStrategies : Skipped(strategies[1][k]) => ~Attempted(k)

C8_Witness ==
  /\ pc = "done"
  /\ strategies # None
  /\ Skipped(strategies[1][1])
  /\ ~Skipped(strategies[1][2])
  /\ Skipped(strategies[1][3]) = FALSE
  /\ FallbackTrace = <<2, 3, 4>>

\* C9 (as stated): for every original query, original tags and acceptedOnly
\* the plan is, in order, (1) the keywords joined by spaces with the original
\* tags, (2) the same query with the technology terms, or the original tags
\* when there is none, (3) the empty query with the technology terms, (4) the
\* first keyword, or the first whitespace-delimited token of the original
\* query when there is no keyword, with no tags; all with acceptedOnly false,
\* so that no fallback request carries the accepted filter.
C9_PlannedStrategies ==
  (PrimaryEmpty /\ requests[1].endpoint = "/search/advanced") =>
    /\ strategies # None
    /\ LET keywords == extract_keywords(args.query)
           terms == extract_technology_terms(args.query, termOrder)
           joined == join(<<" ">>, keywords)
       IN  /\ Len(strategies[1]) = 4
           /\ strategies[1][1] = [query |-> joined, tags |-> args.tags, accepted_only |-> FALSE]
           /\ strategies[1][2] = [query |-> joined,
                                  tags |-> IF terms # <<>> THEN Some(terms) ELSE args.tags,
                                  accepted_only |-> FALSE]
           /\ strategies[1][3] = [query |-> <<>>, tags |-> Some(terms), accepted_only |-> FALSE]
           /\ strategies[1][4] = [query |-> IF keywords # <<>> THEN Head(keywords) ELSE Head(split(args.query)),
                                  tags |-> None, accepted_only |-> FALSE]
    /\ \A i \in 2..Len(requests) : requests[i].params.accepted = None

\* C10: the primary request is determined by whether the query and the tags
\* are present: both, advanced search with both filters; tags only, the tag
\* listing; query only, advanced search with no tag filter; neither, the tag
\* listing with the default tag python; and a search issues exactly one
\* primary request.
C10_PrimaryEndpoint ==
  (IsSearchTool /\ pc # "call") =>
    LET queryPresent == ApiArgs.query # <<>>
        tagsPresent == ApiArgs.tags # None /\ ApiArgs.tags # Some(<<>>)
        primary == requests[1]
    IN  /\ Cardinality({i \in 1..Len(requests) : requests[i].strategy = 0}) = 1
        /\ primary.strategy = 0
        /\ (queryPresent /\ tagsPresent) =>
             /\ primary.endpoint = "/search/advanced"
             /\ primary.params.q = Some(ApiArgs.query)
             /\ primary.params.tagged = Some(join(<<";">>, ApiArgs.tags[1]))
        /\ (~queryPresent /\ tagsPresent) =>
             /\ primary.endpoint = "/questions"
             /\ primary.params.q = None
             /\ primary.params.tagged = Some(join(<<";">>, ApiArgs.tags[1]))
        /\ (queryPresent /\ ~tagsPresent) =>
             /\ primary.endpoint = "/search/advanced"
             /\ primary.params.q = Some(ApiArgs.query)
             /\ primary.params.tagged = None
        /\ (~queryPresent /\ ~tagsPresent) =>
             /\ primary.endpoint = "/questions"
             /\ primary.params.q = None
             /\ primary.params.tagged = Some(python)

C10_Witness ==
  /\ pc = "done"
  /\ tool = "search_stackoverflow"
  /\ args.query = <<>>
  /\ args.tags = None
  /\ requests[1].endpoint = "/questions"
  /\ requests[1].params.tagged = Some(python)

\* the limit clamped into [1, 100]
Clamped(limit) == IF limit < 1 THEN 1 ELSE IF limit > 100 THEN 100 ELSE limit

\* C11: every outbound search request, primary or fallback and on either
\* endpoint, carries a page size equal to the requested limit clamped into
\* [1, 100], never a value below 1 or above 100.
C11_PageSizeClamped ==
  IsSearchTool =>
    \A i \in 1..Len(requests) :
      /\ requests[i].params.pagesize = Clamped(args.limit)
      /\ requests[i].params.pagesize >= 1
      /\ requests[i].params.pagesize <= 100

C11_Witness ==
  /\ pc = "done"
  /\ tool = "search_stackoverflow"
  /\ args.limit > 100
  /\ Len(requests) >= 3
  /\ requests[3].endpoint = "/questions"
  /\ requests[3].params.pagesize = 100

\* C12: when the primary attempt's item list is non-empty the search returns
\* that response at once: no fallback request is issued, the Planner is not
\* run, and the outcome carries no fallback marker.
C12_PrimaryNonEmptyReturns ==
  (PrimaryAnswered /\ NonEmpty(responses[1])) =>
    /\ Returned
    /\ Len(requests) = 1
    /\ strategies = None
    /\ idx = 0
    /\ raised = None
    /\ results = Some([items |-> responses[1].items, error |-> None, fallback_used |-> None])
    /\ (pc = "done" /\ tool = "search_stackoverflow") =>
         \A i \in 1..Len(ret[1]) : "info" \notin DOMAIN ret[1][i]

C12_Witness ==
  /\ pc = "done"
  /\ tool = "search_stackoverflow"
  /\ requests[1].endpoint = "/search/advanced"
  /\ NonEmpty(responses[1])
  /\ Len(ret[1]) = Len(responses[1].items)

\* the formatted upstream records of the primary response with score >= minScore
ScoredAtLeast(min_score) ==
  SelectSeq([i \in 1..Len(responses[1].items) |->
               [question_id |-> responses[1].items[i].question_id, score |-> responses[1].items[i].score]],
            LAMBDA r : r.score >= min_score)

\* C13 (as stated): for every minScore, zero, positive or negative, the result
\* records search_by_tags returns are exactly the formatted upstream records
\* with score >= minScore, in their upstream order.
C13_MinScoreFilter ==
  (tool = "search_by_tags" /\ pc = "done" /\ PrimaryAnswered /\ responses[1].ok) =>
    IF ScoredAtLeast(args.min_score) = <<>>
      THEN Len(ret[1]) = 1 /\ "message" \in DOMAIN ret[1][1]
      ELSE /\ ret[1] = ScoredAtLeast(args.min_score)
           /\ \A i \in 1..Len(ret[1]) : ret[1][i].score >= args.min_score

\* C14 (as stated): when the upstream call of search_by_tags fails with a
\* transport failure the tool returns an error record with an error message,
\* for every minScore, and never the diagnostic of an empty result.
C14_TagSearchFailureIsError ==
  (tool = "search_by_tags" /\ pc = "done" /\ PrimaryFailed) =>
    /\ Len(ret[1]) = 1
    /\ "error" \in DOMAIN ret[1][1]
    /\ "message" \notin DOMAIN ret[1][1]

\* the upstream items of the response that ended the search, formatted one by one
FormattedLast ==
  LET items == responses[Len(responses)].items
  IN  [i \in 1..Len(items) |-> [question_id |-> items[i].question_id, score |-> items[i].score]]

EndsNonEmpty == tool = "search_stackoverflow" /\ pc = "done" /\ LastSucceeded

RECURSIVE FirstAccepted(_)
\* the first answer marked accepted, formatted, or None
FirstAccepted(answers) ==
  IF answers = <<>> THEN None
  ELSE IF Head(answers).is_accepted
    THEN Some([answer_id |-> Head(answers).answer_id, score |-> Head(answers).score, is_accepted |-> TRUE])
    ELSE FirstAccepted(Tail(answers))

\* C16 (as stated): for every upstream answer list the accepted answer of
\* get_question_details is the first item, in upstream order, marked accepted
\* (none when no item is), also when more than one item is marked accepted.
C16_FirstAcceptedAnswer ==
  (tool = "get_question_details" /\ pc = "done" /\ Len(responses) = 1 /\ responses[1].ok) =>
    ret[1].accepted_answer = FirstAccepted(responses[1].items)

RECURSIVE FirstSurvivors(_, _)
\* the first n tokens that are no stop word and longer than two characters
FirstSurvivors(tokens, n) ==
  IF n = 0 \/ tokens = <<>> THEN <<>>
  ELSE IF Head(tokens) \in stop_words \/ Len(Head(tokens)) <= 2
    THEN FirstSurvivors(Tail(tokens), n)
    ELSE <<Head(tokens)>> \o FirstSurvivors(Tail(tokens), n - 1)

KeywordsComputed == tool = "text_analyzer" /\ pc \in {"keywords", "done"}

\* C17: extractKeywords returns the first five (or fewer) tokens of the
\* lowercased query that are no stop word and longer than two characters, in
\* their original order, duplicates kept; never more than five elements, never
\* a stop word, never a token of length <= 2.
C17_ExtractKeywords ==
  KeywordsComputed =>
    LET keywords == results[1].keywords
    IN  /\ keywords = FirstSurvivors(findall_words(lower(args.query)), 5)
        /\ Len(keywords) <= 5
        /\ \A i \in 1..Len(keywords) :
             /\ keywords[i] \notin stop_words
             /\ Len(keywords[i]) > 2
             /\ Range(keywords[i]) \subseteq LowerLetters \cup Digits \cup {"_"}

C17_Witness ==
  /\ KeywordsComputed
  /\ Len(results[1].keywords) = 5
  /\ results[1].keywords[1] = results[1].keywords[3]
  /\ results[1].keywords[1] # results[1].keywords[2]
  /\ Len(findall_words(lower(args.query))) = 6
  /\ \E i \in 1..3 : findall_words(lower(args.query))[i] \in stop_words

\* term occurs in text, position by position
OccursIn(term, text) ==
  \E i \in 0..(Len(text) - Len(term)) : \A j \in 1..Len(term) : text[i + j] = term[j]

TermsComputed == tool = "text_analyzer" /\ pc = "done"

pandas == <<"p","a","n","d","a","s">>

\* C18: extractTechnologyTerms returns, as a set, exactly the vocabulary terms
\* that occur as substrings of the lowercased query, plus airflow-scheduler if
\* and only if the query contains both dag and airflow; exactly
\* {pandas, python} for "How to use pandas with python".
C18_ExtractTechnologyTerms ==
  TermsComputed =>
    LET terms == Range(results[1].terms)
        text == lower(args.query)
    IN  /\ terms \ {airflow_scheduler} = {t \in Range(tech_terms) : OccursIn(t, text)}
        /\ airflow_scheduler \in terms <=> (OccursIn(dag, text) /\ OccursIn(airflow, text))
        /\ args.query = <<"H","o","w"," ","t","o"," ","u","s","e"," ","p","a","n","d","a","s"," ","w","i","t","h"," ","p","y","t","h","o","n">>
             => terms = {pandas, python}

C18_Witness ==
  /\ TermsComputed
  /\ airflow_scheduler \in Range(results[1].terms)
  /\ airflow \in Range(results[1].terms)
  /\ args.query # lower(args.query)

\* the technology terms of the request's query in a run of the program that
\* visits the vocabulary in the order written in the source
TermsOfReferenceRun == extract_technology_terms(args.query, "forward")

\* C19 (as stated): extractTechnologyTerms returns the matched terms in the
\* same order in every run of the program, so the tag list that strategies 2
\* and 3 send upstream is a function of the original query alone: in every
\* run it is the list the reference run sends for the same query.
C19_TermOrderDeterministic ==
  (IsSearchTool /\ strategies # None /\ TermsOfReferenceRun # <<>>) =>
    /\ strategies[1][2].tags = Some(TermsOfReferenceRun)
    /\ strategies[1][3].tags = Some(TermsOfReferenceRun)
    /\ \A i \in 2..Len(requests) :
         requests[i].strategy \in {2, 3} =>
           requests[i].params.tagged = Some(join(<<";">>, TermsOfReferenceRun))

(* --------------------------- C20: isolation ---------------------------- *)
\* the arguments an invocation of tool t with arguments a passes to the client
ApiArgsOf(t, a) ==
  IF t = "search_by_tags"
    THEN [query |-> <<>>, limit |-> a.limit, sort |-> a.sort, tags |-> a.tags, accepted_only |-> FALSE]
    ELSE [query |-> a.query, limit |-> a.limit, sort |-> a.sort, tags |-> a.tags,
          accepted_only |-> a.accepted_only]

Unfinished == [requests |-> <<>>, results |-> None]

\* the requests and the result of the fallback cascade of an invocation that
\* runs alone, from strategy k on, when the upstream answers resps[j], resps[j+1], ...
RECURSIVE AloneCascade(_, _, _, _, _)
AloneCascade(api, plan, k, resps, j) ==
  IF k > NumStrategies
    THEN [requests |-> <<>>, results |-> Some([items |-> <<>>, error |-> None, fallback_used |-> None])]
  ELSE IF ~truthy(plan[k].query) /\ ~truthyOpt(plan[k].tags)
    THEN AloneCascade(api, plan, k + 1, resps, j)
  ELSE IF j > Len(resps)
    THEN Unfinished
  ELSE LET request == FallbackRequest(k, plan[k], api.limit, api.sort)
           rest == AloneCascade(api, plan, k + 1, resps, j + 1)
       IN  IF resps[j].ok /\ resps[j].items # <<>>
             THEN [requests |-> <<request>>,
                   results |-> Some([items |-> resps[j].items, error |-> None,
                                     fallback_used |-> Some([original_query |-> api.query,
                                                             fallback_query |-> plan[k].query,
                                                             fallback_tags |-> plan[k].tags])])]
             ELSE [requests |-> <<request>> \o rest.requests, results |-> rest.results]

\* the requests, the result and the pending exception of a search invocation
\* that runs alone with arguments a and upstream answers resps
AloneSearch(t, a, order, resps) ==
  LET api == ApiArgsOf(t, a)
      primary == PrimaryRequest(api.query, api.limit, api.sort, api.tags, api.accepted_only)
      only(result, exc) == [requests |-> <<primary>>, results |-> result, raised |-> exc]
  IN  IF resps = <<>> THEN only(None, None)
      ELSE IF ~resps[1].ok
        THEN only(Some([items |-> <<>>, error |-> Some("API request failed"), fallback_used |-> None]), None)
      ELSE IF resps[1].items # <<>> \/ primary.endpoint = "/questions"
        THEN only(Some([items |-> resps[1].items, error |-> None, fallback_used |-> None]), None)
      ELSE IF extract_keywords(api.query) = <<>> /\ split(api.query) = <<>>
        THEN only(None, Some("IndexError"))
      ELSE LET cascade == AloneCascade(api, fallback_strategies(api.query, api.tags, order), 1, resps, 2)
           IN  [requests |-> <<primary>> \o cascade.requests, results |-> cascade.results, raised |-> None]

\* the same for get_question_details
AloneDetails(a, resps) ==
  IF ~a.include_answers
    THEN [requests |-> <<>>, results |-> None, raised |-> None]
    ELSE [requests |-> <<AnswersRequest(a.question_id)>>,
          results |-> IF resps = <<>> THEN None
                      ELSE IF resps[1].ok
                        THEN Some([items |-> resps[1].items, error |-> None, fallback_used |-> None])
                        ELSE Some([items |-> <<>>, error |-> Some("API request failed"),
                                   fallback_used |-> None]),
          raised |-> None]

Alone(f, order) ==
  IF f.tool = "get_question_details"
    THEN AloneDetails(f.args, f.responses)
    ELSE AloneSearch(f.tool, f.args, order, f.responses)

\* the question ids of the records an invocation returned
ReturnedIds(f) ==
  IF f.tool = "get_question_details" \/ f.ret = None THEN {}
  ELSE { f.ret[1][i].question_id : i \in { n \in 1..Len(f.ret[1]) : "question_id" \in DOMAIN f.ret[1][n] } }

\* the question ids of the last upstream answer an invocation received
ReceivedIds(f) ==
  IF f.tool = "get_question_details" \/ f.responses = <<>> THEN {}
  ELSE LET last == f.responses[Len(f.responses)]
       IN  { last.items[i].question_id : i \in 1..Len(last.items) }

\* invocation f ended as it would have ended alone
Isolated(f) ==
  LET alone == Alone(f, termOrder)
  IN  /\ f.requests = alone.requests
      /\ f.results = alone.results
      /\ f.raised = alone.raised
      /\ ReturnedIds(f) \subseteq ReceivedIds(f)
      /\ (f.tool = "search_stackoverflow" /\ f.ret # None /\ "info" \in DOMAIN f.ret[1][1]) =>
           /\ f.ret[1][1].original_query = f.args.query
           /\ f.results[1].fallback_used # None
           /\ f.ret[1][1].fallback_query = f.results[1].fallback_used[1].fallback_query
           /\ f.ret[1][1].fallback_tags = f.results[1].fallback_used[1].fallback_tags

Invocations == {Frame} \cup (IF other = None THEN {} ELSE {other[1].frame})

\* C20: when two tool invocations overlap in one process and share the one
\* client, each invocation that has ended has sent exactly the requests, and
\* holds exactly the outcome (items, fallback marker, error), that it would
\* have produced running alone with the same arguments and the same upstream
\* answers; the records it returns come from its own last upstream answer and
\* a fallback record in its return value describes its own query and strategy.
C20_InvocationsIsolated ==
  \A f \in Invocations : f.pc = "done" => Isolated(f)

\* both invocations have ended after being in flight at the same time, one
\* through a fallback strategy and the other with different items
C20_Witness ==
  /\ other # None
  /\ other[1].overlapped
  /\ pc = "done"
  /\ other[1].frame.pc = "done"
  /\ results # None /\ results[1].fallback_used # None
  /\ other[1].frame.results # None
  /\ other[1].frame.results[1].items # <<>>
  /\ other[1].frame.results[1].items # results[1].items

(* ------------------------ C21: fallback marker ------------------------- *)
\* search_questions has returned a result
SearchOutcome == IsSearchTool /\ Returned /\ results # None

\* the fallback strategies whose request was answered with a non-empty list
Succeeded ==
  { requests[i].strategy : i \in { n \in 2..Len(responses) : NonEmpty(responses[n]) } }

\* the position of the request of strategy k
RequestOf(k) == CHOOSE i \in 2..Len(responses) : requests[i].strategy = k

\* C21: in every outcome of search_questions the fallback marker is present
\* if and only if the primary attempt was answered, without transport
\* failure, with zero items and some fallback strategy returned a non-empty
\* item list; when present, the outcome's items are exactly that strategy's
\* response items, the recorded original query is the request's query, and the
\* recorded fallback query and tags are those of the first strategy, in the
\* order 1..4, that succeeded. An outcome that is an exception carries no
\* marker and follows no successful fallback.
C21_FallbackMarker ==
  /\ SearchOutcome =>
       /\ (results[1].fallback_used # None) <=> (PrimaryEmpty /\ Succeeded # {})
       /\ results[1].fallback_used # None =>
            LET first == CHOOSE k \in Succeeded : \A j \in Succeeded : k <= j
                marker == results[1].fallback_used[1]
            IN  /\ results[1].items = responses[RequestOf(first)].items
                /\ results[1].error = None
                /\ marker.original_query = ApiArgs.query
                /\ marker.fallback_query = strategies[1][first].query
                /\ marker.fallback_tags = strategies[1][first].tags
                /\ requests[RequestOf(first)].params.q = Some(marker.fallback_query)
                /\ requests[RequestOf(first)].params.tagged =
                     IF truthyOpt(marker.fallback_tags)
                       THEN Some(join(<<";">>, marker.fallback_tags[1])) ELSE None
  /\ (IsSearchTool /\ Returned /\ results = None) => Succeeded = {}

\* a search ended through strategy 4 after an earlier strategy had answered
\* with nothing, for a query that the planner rewrites
C21_Witness ==
  /\ SearchOutcome
  /\ results[1].fallback_used # None
  /\ Succeeded = {4}
  /\ Len(requests) > 2
  /\ results[1].fallback_used[1].fallback_query # args.query
  /\ Len(results[1].items) = 2
====
